---------------------------- MODULE Spec2Model ----------------------------
(***************************************************************************)
(* Dispatch Register (src/app.py): the dispatch numbering done by          *)
(* insert_data against the dispatch_sequence counter and the               *)
(* dispatch_records table, the contact directory (add_contact,             *)
(* update_contact, delete_contact), the dispatch form's required-field     *)
(* check, View Records, login and logout, with several browser sessions    *)
(* using the application concurrently.                                     *)
(*                                                                         *)
(* Text is modelled as a sequence of one-character strings, so that the    *)
(* formatting of a dispatch number is computed digit by digit and can be   *)
(* parsed back.                                                            *)
(*                                                                         *)
(* A backend call that fails (raises, reports an error, or returns no      *)
(* data) is modelled as having had no effect on the database.  The         *)
(* contacts table is the one the application documents: columns id and     *)
(* name, the id given by the database, no constraint on name.              *)
(***************************************************************************)
EXTENDS Integers, Sequences, FiniteSets, TLC

(***************************************************************************)
(* Bounds of the model.                                                    *)
(***************************************************************************)
\* number of browser sessions submitting concurrently
NumSessions == 2
\* total number of form submissions (dispatch form, contact forms and
\* buttons, View Records) over a run
MaxSubmissions == 2

Procs == 1..NumSessions

(***************************************************************************)
(* Text constants.                                                         *)
(***************************************************************************)
ACCTS == <<"A", "C", "C", "T", "S">>
ESTAB == <<"E", "S", "T", "A", "B">>
DB == <<"D", "B">>
CAMP == <<"C", "A", "M", "P">>

\* the options of the Section selectbox
sections == <<ACCTS, ESTAB, DB, CAMP>>

\* Python's None, for the text-valued column CC and for unset text locals
None == <<"None">>

\* names of the contact directory offered by the CC multiselect
ContactA == <<"A", "l">>
ContactB == <<"A", "l", "i">>

\* Python's None, for an id held in the session state
NoId == 0

\* the ids the contacts table gave the two names
IdA == 1
IdB == 2

\* str(date_val) of the date the date_input holds
Today == <<"2", "0", "2", "5", "-", "0", "1", "-", "0", "2">>

\* a subject typed into the text_area
SubjectText == <<"B", "i", "l", "l">>

\* the contents of the dispatch form when "Add Record" is pressed
Form(s, d, a, cc, subj, rem) ==
    [section |-> s, date_val |-> d, address |-> a, cc_list |-> cc,
     subject |-> subj, remarks |-> rem]

\* the complete forms submitted: CC selections of 0, 1 and 2 names (the
\* multiselect yields a list)
Submissions ==
    { Form(ACCTS, Today, ContactA, <<>>, SubjectText, <<>>),
      Form(ACCTS, Today, ContactA, <<ContactA, ContactB>>, SubjectText, <<>>),
      Form(DB, Today, ContactB, <<ContactB>>, SubjectText, <<>>) }

\* forms with one required field left empty (selectbox index=None gives
\* None, an untouched text_area gives "")
IncompleteForms ==
    { Form(None, Today, ContactA, <<>>, SubjectText, <<>>),
      Form(ACCTS, None, ContactA, <<>>, SubjectText, <<>>),
      Form(ACCTS, Today, None, <<>>, SubjectText, <<>>),
      Form(DB, Today, ContactB, <<ContactB>>, <<>>, <<>>) }

\* the values dispatch_sequence.last_no may hold when the run starts
InitialLastNos == {0, 8, 41}

Digits == <<"0", "1", "2", "3", "4", "5", "6", "7", "8", "9">>

(***************************************************************************)
(* Pure functions of insert_data.                                          *)
(***************************************************************************)
RECURSIVE NatToStr(_)
\* str() of a non-negative int, as the f-string renders it
NatToStr(n) ==
    IF n < 10 THEN <<Digits[n + 1]>>
    ELSE NatToStr(n \div 10) \o <<Digits[(n % 10) + 1]>>

\* count_cc_recipients: len(cc_list) if cc_list else 0
count_cc_recipients(cc) == IF cc # <<>> THEN Len(cc) ELSE 0

\* a plausible slip: the range form is written also for a single number
GenerateNo_AlwaysRange(section, start, cc_count, end) ==
    <<"H", "D", "U", "/">> \o section \o <<"/">> \o NatToStr(start)
        \o <<"-">> \o NatToStr(end)

\* step 4 of insert_data: the 'No' string
GenerateNo(section, start, cc_count, end) ==
    IF cc_count = 0
    THEN <<"H", "D", "U", "/">> \o section \o <<"/">> \o NatToStr(start)
    ELSE <<"H", "D", "U", "/">> \o section \o <<"/">> \o NatToStr(start)
             \o <<"-">> \o NatToStr(end)

RECURSIVE Join(_)
\* ", ".join(cc_list)
Join(cc) ==
    IF cc = <<>> THEN <<>>
    ELSE IF Len(cc) = 1 THEN cc[1]
    ELSE cc[1] \o <<",", " ">> \o Join(Tail(cc))

\* step 5 of insert_data: the CC column
cc_string(cc) == IF cc # <<>> THEN Join(cc) ELSE None

(***************************************************************************)
(* State.                                                                  *)
(***************************************************************************)
VARIABLES
    supabase,             \* TRUE iff the module-level client was created
    last_no,              \* dispatch_sequence.last_no of the row id = 1
    records,              \* dispatch_records, in insertion order
    pc,                   \* per session: position inside insert_data
    section,              \* per session: argument section
    cc_list,              \* per session: argument cc_list
    next_dispatch_number, \* per session: local next_dispatch_number
    end_no,               \* per session: local end_no
    generated_no,         \* per session: local generated_no
    ret,                  \* per session: value returned by insert_data
    msgs,                 \* per session: st.error / st.warning / st.success shown
    base,                 \* per session: last_no when the submission began
    initial_last_no,      \* last_no when the run began
    submitted,            \* number of submissions begun so far
    date_val,             \* per session: argument date_val
    address,              \* per session: argument address
    subject,              \* per session: argument subject
    remarks,              \* per session: argument remarks
    contacts,             \* the contacts table: rows [id, name]
    next_id,              \* the id the contacts table gives its next row
    contacts_data,        \* per session: rows fetched by this script run
    chosen,               \* ids of the contact rows picked for stored records
    inserted,             \* per session: records its insert_data call has stored
    contact_id,           \* per session: argument contact_id of a contact call
    contact_name,         \* per session: argument name of a contact call
    address_count,        \* per session: local address_count of delete_contact
    authentication_status, \* per session: st.session_state
    username,             \* per session: st.session_state
    name,                 \* per session: st.session_state
    edit_contact_id,      \* per session: st.session_state
    edit_contact_name,    \* per session: st.session_state
    delete_contact_id,    \* per session: st.session_state
    contact_to_delete_name, \* per session: st.session_state
    confirm_delete        \* per session: st.session_state

db == <<last_no, records>>
locals == <<section, cc_list, next_dispatch_number, end_no, generated_no>>
args == <<date_val, address, subject, remarks>>
directory == <<contacts, next_id>>
contact_op == <<contact_id, contact_name, address_count>>
session == <<authentication_status, username, name>>
\* the session state of the Manage Contacts page
manage == <<edit_contact_id, edit_contact_name, delete_contact_id,
            contact_to_delete_name, confirm_delete>>
\* what insert_data never touches
frame == <<directory, contact_op, session, manage>>
vars == <<supabase, last_no, records, pc, section, cc_list,
          next_dispatch_number, end_no, generated_no, ret, msgs, base,
          initial_last_no, submitted, date_val, address, subject, remarks,
          contacts, next_id, contacts_data, chosen, inserted, contact_id,
          contact_name,
          address_count, authentication_status, username, name,
          edit_contact_id, edit_contact_name, delete_contact_id,
          contact_to_delete_name, confirm_delete>>

Msg(kind, text, no) == [kind |-> kind, text |-> text, no |-> no]

Init ==
    /\ supabase \in BOOLEAN
    /\ last_no \in InitialLastNos
    /\ initial_last_no = last_no
    /\ records = <<>>
    /\ pc = [p \in Procs |-> "idle"]
    /\ section = [p \in Procs |-> None]
    /\ cc_list = [p \in Procs |-> <<>>]
    /\ next_dispatch_number = [p \in Procs |-> 0]
    /\ end_no = [p \in Procs |-> 0]
    /\ generated_no = [p \in Procs |-> None]
    /\ ret = [p \in Procs |-> "None"]
    /\ msgs = [p \in Procs |-> <<>>]
    /\ base = [p \in Procs |-> 0]
    /\ submitted = 0
    /\ date_val = [p \in Procs |-> None]
    /\ address = [p \in Procs |-> None]
    /\ subject = [p \in Procs |-> None]
    /\ remarks = [p \in Procs |-> None]
    /\ contacts = {[id |-> IdA, name |-> ContactA],
                   [id |-> IdB, name |-> ContactB]}
    /\ next_id = 3
    /\ contacts_data = [p \in Procs |-> {}]
    /\ chosen = {}
    /\ inserted = [p \in Procs |-> 0]
    /\ contact_id = [p \in Procs |-> 0]
    /\ contact_name = [p \in Procs |-> None]
    /\ address_count = [p \in Procs |-> 0]
    /\ authentication_status = [p \in Procs |-> "None"]
    /\ username = [p \in Procs |-> None]
    /\ name = [p \in Procs |-> None]
    /\ edit_contact_id = [p \in Procs |-> NoId]
    /\ edit_contact_name = [p \in Procs |-> None]
    /\ delete_contact_id = [p \in Procs |-> NoId]
    /\ contact_to_delete_name = [p \in Procs |-> None]
    /\ confirm_delete = [p \in Procs |-> FALSE]


(***************************************************************************)
(* The database function get_next_dispatch_no: one atomic server-side      *)
(* statement that increments last_no and returns the new value.            *)
(***************************************************************************)
get_next_dispatch_no(n) == n + 1

(***************************************************************************)
(* insert_data, one action per backend call and outcome.  A session        *)
(* submits the dispatch form; the script run then executes insert_data.    *)
(***************************************************************************)

\* insert_data returns: its arguments and locals are gone
DropLocals(p) ==
    /\ section' = [section EXCEPT ![p] = None]
    /\ cc_list' = [cc_list EXCEPT ![p] = <<>>]
    /\ next_dispatch_number' = [next_dispatch_number EXCEPT ![p] = 0]
    /\ end_no' = [end_no EXCEPT ![p] = 0]
    /\ generated_no' = [generated_no EXCEPT ![p] = None]
    /\ base' = [base EXCEPT ![p] = 0]
    /\ date_val' = [date_val EXCEPT ![p] = None]
    /\ address' = [address EXCEPT ![p] = None]
    /\ subject' = [subject EXCEPT ![p] = None]
    /\ remarks' = [remarks EXCEPT ![p] = None]

\* fetch_contacts at the top of a script run: the rows, or [] with no client
FetchedContacts == IF supabase THEN contacts ELSE {}

\* the names of a set of contact rows
Names(rows) == {r.name : r \in rows}

\* a plausible slip: the subject is left out of the required-field check
FormComplete_NoSubject(f) ==
    /\ f.section # None /\ f.section # <<>>
    /\ f.date_val # None
    /\ f.address # None /\ f.address # <<>>

\* the required-field check of the dispatch form: every one of section,
\* date, address and subject is truthy
FormComplete(f) ==
    /\ f.section # None /\ f.section # <<>>
    /\ f.date_val # None
    /\ f.address # None /\ f.address # <<>>
    /\ f.subject # None /\ f.subject # <<>>

\* entry of insert_data with no client: st.error, return False
SubmitNoClient(p, f) ==
    /\ pc[p] \in {"idle", "done"}
    /\ submitted < MaxSubmissions
    /\ FormComplete(f)
    /\ ~supabase
    /\ contacts_data' = [contacts_data EXCEPT ![p] = FetchedContacts]
    /\ submitted' = submitted + 1
    /\ msgs' = [msgs EXCEPT ![p] =
                  <<Msg("error", "Supabase connection not available.", None)>>]
    /\ ret' = [ret EXCEPT ![p] = "False"]
    /\ pc' = [pc EXCEPT ![p] = "done"]
    /\ DropLocals(p)
    /\ inserted' = [inserted EXCEPT ![p] = 0]
    /\ UNCHANGED <<supabase, last_no, records, initial_last_no, chosen, frame>>

\* the dispatch form is complete and its address and CC names are among the
\* options fetched by this run; entry of insert_data with a client: proceed
\* to the RPC
Submit(p, f) ==
    /\ pc[p] \in {"idle", "done"}
    /\ submitted < MaxSubmissions
    /\ FormComplete(f)
    /\ supabase
    /\ f.address \in Names(FetchedContacts)
    /\ \A i \in DOMAIN f.cc_list : f.cc_list[i] \in Names(FetchedContacts)
    /\ contacts_data' = [contacts_data EXCEPT ![p] = FetchedContacts]
    /\ submitted' = submitted + 1
    /\ section' = [section EXCEPT ![p] = f.section]
    /\ cc_list' = [cc_list EXCEPT ![p] = f.cc_list]
    /\ date_val' = [date_val EXCEPT ![p] = f.date_val]
    /\ address' = [address EXCEPT ![p] = f.address]
    /\ subject' = [subject EXCEPT ![p] = f.subject]
    /\ remarks' = [remarks EXCEPT ![p] = f.remarks]
    /\ next_dispatch_number' = [next_dispatch_number EXCEPT ![p] = 0]
    /\ end_no' = [end_no EXCEPT ![p] = 0]
    /\ generated_no' = [generated_no EXCEPT ![p] = None]
    /\ base' = [base EXCEPT ![p] = last_no]
    /\ msgs' = [msgs EXCEPT ![p] = <<>>]
    /\ ret' = [ret EXCEPT ![p] = "None"]
    /\ pc' = [pc EXCEPT ![p] = "rpc"]
    /\ inserted' = [inserted EXCEPT ![p] = 0]
    /\ UNCHANGED <<supabase, last_no, records, initial_last_no, chosen, frame>>

\* step 1, rpc_response.error set: st.error, return False
RpcError(p) ==
    /\ pc[p] = "rpc"
    /\ msgs' = [msgs EXCEPT ![p] =
                  <<Msg("error", "Error calling DB function 'get_next_dispatch_no'", None)>>]
    /\ ret' = [ret EXCEPT ![p] = "False"]
    /\ pc' = [pc EXCEPT ![p] = "done"]
    /\ DropLocals(p)
    /\ UNCHANGED <<supabase, db, initial_last_no, submitted, contacts_data,
                   chosen, inserted, frame>>

\* a plausible slip: missing data is read as 0 and the submission goes on
RpcNoData_Proceeds(p) ==
    /\ pc[p] = "rpc"
    /\ next_dispatch_number' = [next_dispatch_number EXCEPT ![p] = 0]
    /\ end_no' = [end_no EXCEPT ![p] = count_cc_recipients(cc_list[p])]
    /\ generated_no' = [generated_no EXCEPT ![p] =
                          GenerateNo(section[p], 0,
                                     count_cc_recipients(cc_list[p]),
                                     count_cc_recipients(cc_list[p]))]
    /\ pc' = [pc EXCEPT ![p] = "insert"]
    /\ UNCHANGED <<supabase, db, section, cc_list, ret, msgs, base,
                   initial_last_no, submitted, args, contacts_data, chosen, inserted,
                   frame>>

\* step 1, rpc_response.data is None: st.error, return False
RpcNoData(p) ==
    /\ pc[p] = "rpc"
    /\ msgs' = [msgs EXCEPT ![p] =
                  <<Msg("error", "Failed to get next dispatch number. RPC response invalid.", None)>>]
    /\ ret' = [ret EXCEPT ![p] = "False"]
    /\ pc' = [pc EXCEPT ![p] = "done"]
    /\ DropLocals(p)
    /\ UNCHANGED <<supabase, db, initial_last_no, submitted, contacts_data,
                   chosen, inserted, frame>>

\* step 1, the call raises: st.error twice, return False
RpcException(p) ==
    /\ pc[p] = "rpc"
    /\ msgs' = [msgs EXCEPT ![p] =
                  <<Msg("error", "Exception calling DB function 'get_next_dispatch_no'", None),
                    Msg("error", "traceback", None)>>]
    /\ ret' = [ret EXCEPT ![p] = "False"]
    /\ pc' = [pc EXCEPT ![p] = "done"]
    /\ DropLocals(p)
    /\ UNCHANGED <<supabase, db, initial_last_no, submitted, contacts_data,
                   chosen, inserted, frame>>

\* steps 1 to 5: the RPC returns the new last_no; cc_count, end_no,
\* generated_no are computed from it
RpcOk(p) ==
    /\ pc[p] = "rpc"
    /\ last_no' = get_next_dispatch_no(last_no)
    /\ next_dispatch_number' = [next_dispatch_number EXCEPT ![p] = last_no']
    /\ end_no' = [end_no EXCEPT ![p] =
                    last_no' + count_cc_recipients(cc_list[p])]
    /\ generated_no' = [generated_no EXCEPT ![p] =
                          GenerateNo(section[p], last_no',
                                     count_cc_recipients(cc_list[p]),
                                     last_no' + count_cc_recipients(cc_list[p]))]
    /\ pc' = [pc EXCEPT ![p] = "insert"]
    /\ UNCHANGED <<supabase, records, section, cc_list, ret, msgs, base,
                   initial_last_no, submitted, args, contacts_data, chosen, inserted,
                   frame>>

\* step 6: the row handed to insert()
data_to_insert(p) ==
    [Section |-> section[p], Date |-> date_val[p], Address |-> address[p],
     CC |-> cc_string(cc_list[p]), Subject |-> subject[p],
     Remarks |-> remarks[p], No |-> generated_no[p]]

\* the rows of this run's contact list whose names the form picked
ChosenIds(p) ==
    {r.id : r \in {x \in contacts_data[p] :
                      \/ x.name = address[p]
                      \/ \E i \in DOMAIN cc_list[p] : cc_list[p][i] = x.name}}

\* steps 6 and 7: the insert returns the stored row
InsertOk(p) ==
    /\ pc[p] = "insert"
    /\ records' = Append(records, data_to_insert(p))
    /\ chosen' = chosen \cup ChosenIds(p)
    /\ inserted' = [inserted EXCEPT ![p] = inserted[p] + 1]
    /\ pc' = [pc EXCEPT ![p] = "update"]
    /\ UNCHANGED <<supabase, last_no, locals, ret, msgs, base,
                   initial_last_no, submitted, args, contacts_data, frame>>

\* step 7, insert_response.data empty: st.error, return False
InsertNoData(p) ==
    /\ pc[p] = "insert"
    /\ msgs' = [msgs EXCEPT ![p] =
                  <<Msg("error", "Failed to add record", None)>>]
    /\ ret' = [ret EXCEPT ![p] = "False"]
    /\ pc' = [pc EXCEPT ![p] = "done"]
    /\ DropLocals(p)
    /\ UNCHANGED <<supabase, db, initial_last_no, submitted, contacts_data,
                   chosen, inserted, frame>>

\* a plausible slip: the outer except returns False and shows nothing
InsertException_Swallowed(p) ==
    /\ pc[p] = "insert"
    /\ msgs' = [msgs EXCEPT ![p] = <<>>]
    /\ ret' = [ret EXCEPT ![p] = "False"]
    /\ pc' = [pc EXCEPT ![p] = "done"]
    /\ DropLocals(p)
    /\ UNCHANGED <<supabase, db, initial_last_no, submitted, contacts_data,
                   chosen, inserted, frame>>

\* step 6, the insert raises: the outer except, st.error twice, return False
InsertException(p) ==
    /\ pc[p] = "insert"
    /\ msgs' = [msgs EXCEPT ![p] =
                  <<Msg("error", "Error inserting/updating data", None),
                    Msg("error", "traceback", None)>>]
    /\ ret' = [ret EXCEPT ![p] = "False"]
    /\ pc' = [pc EXCEPT ![p] = "done"]
    /\ DropLocals(p)
    /\ UNCHANGED <<supabase, db, initial_last_no, submitted, contacts_data,
                   chosen, inserted, frame>>

\* a plausible slip: last_no is set to the start number, not to end_no
UpdateOk_StartOnly(p) ==
    /\ pc[p] = "update"
    /\ last_no' = next_dispatch_number[p]
    /\ msgs' = [msgs EXCEPT ![p] =
                  <<Msg("success", "Record added successfully with Dispatch No", generated_no[p])>>]
    /\ ret' = [ret EXCEPT ![p] = "True"]
    /\ pc' = [pc EXCEPT ![p] = "done"]
    /\ DropLocals(p)
    /\ UNCHANGED <<supabase, records, initial_last_no, submitted,
                   contacts_data, chosen, inserted, frame>>

\* step 8: last_no := end_no; st.success, return True
UpdateOk(p) ==
    /\ pc[p] = "update"
    /\ last_no' = end_no[p]
    /\ msgs' = [msgs EXCEPT ![p] =
                  <<Msg("success", "Record added successfully with Dispatch No", generated_no[p])>>]
    /\ ret' = [ret EXCEPT ![p] = "True"]
    /\ pc' = [pc EXCEPT ![p] = "done"]
    /\ DropLocals(p)
    /\ UNCHANGED <<supabase, records, initial_last_no, submitted,
                   contacts_data, chosen, inserted, frame>>

\* a plausible slip: the check of update_response is inverted
UpdateNoData_Silent(p) ==
    /\ pc[p] = "update"
    /\ msgs' = [msgs EXCEPT ![p] =
                  <<Msg("success", "Record added successfully with Dispatch No", generated_no[p])>>]
    /\ ret' = [ret EXCEPT ![p] = "True"]
    /\ pc' = [pc EXCEPT ![p] = "done"]
    /\ DropLocals(p)
    /\ UNCHANGED <<supabase, db, initial_last_no, submitted, contacts_data,
                   chosen, inserted, frame>>

\* step 8, update_response.data empty: st.warning, then st.success, return True
UpdateNoData(p) ==
    /\ pc[p] = "update"
    /\ msgs' = [msgs EXCEPT ![p] =
                  <<Msg("warning", "Record saved, BUT failed to update sequence table", generated_no[p]),
                    Msg("success", "Record added successfully with Dispatch No", generated_no[p])>>]
    /\ ret' = [ret EXCEPT ![p] = "True"]
    /\ pc' = [pc EXCEPT ![p] = "done"]
    /\ DropLocals(p)
    /\ UNCHANGED <<supabase, db, initial_last_no, submitted, contacts_data,
                   chosen, inserted, frame>>

\* a plausible slip: the failure of the sequence update is reported as the
\* failure of the submission
UpdateException_ReturnsFalse(p) ==
    /\ pc[p] = "update"
    /\ msgs' = [msgs EXCEPT ![p] =
                  <<Msg("warning", "Record saved, BUT failed during sequence update", generated_no[p]),
                    Msg("warning", "traceback", None),
                    Msg("success", "Record added successfully with Dispatch No", generated_no[p])>>]
    /\ ret' = [ret EXCEPT ![p] = "False"]
    /\ pc' = [pc EXCEPT ![p] = "done"]
    /\ DropLocals(p)
    /\ UNCHANGED <<supabase, db, initial_last_no, submitted, contacts_data,
                   chosen, inserted, frame>>

\* step 8, the update raises: st.warning twice, then st.success, return True
UpdateException(p) ==
    /\ pc[p] = "update"
    /\ msgs' = [msgs EXCEPT ![p] =
                  <<Msg("warning", "Record saved, BUT failed during sequence update", generated_no[p]),
                    Msg("warning", "traceback", None),
                    Msg("success", "Record added successfully with Dispatch No", generated_no[p])>>]
    /\ ret' = [ret EXCEPT ![p] = "True"]
    /\ pc' = [pc EXCEPT ![p] = "done"]
    /\ DropLocals(p)
    /\ UNCHANGED <<supabase, db, initial_last_no, submitted, contacts_data,
                   chosen, inserted, frame>>

(***************************************************************************)
(* Specifications.                                                         *)
(***************************************************************************)
\* sessions submit and run insert_data concurrently, any call may fail
Next ==
    \E p \in Procs :
        \/ \E f \in Submissions : SubmitNoClient(p, f)
        \/ \E f \in Submissions : Submit(p, f)
        \/ RpcError(p)
        \/ RpcNoData(p)
        \/ RpcException(p)
        \/ RpcOk(p)
        \/ InsertOk(p)
        \/ InsertNoData(p)
        \/ InsertException(p)
        \/ UpdateOk(p)
        \/ UpdateNoData(p)
        \/ UpdateException(p)

Spec == Init /\ [][Next]_vars

\* no other session is inside insert_data
Alone(p) == \A q \in Procs \ {p} : pc[q] \in {"idle", "done"}

\* submissions run one at a time, any call may fail
NextSeq ==
    \E p \in Procs :
        \/ \E f \in Submissions :
              Alone(p) /\ SubmitNoClient(p, f)
        \/ \E f \in Submissions :
              Alone(p) /\ Submit(p, f)
        \/ RpcError(p)
        \/ RpcNoData(p)
        \/ RpcException(p)
        \/ RpcOk(p)
        \/ InsertOk(p)
        \/ InsertNoData(p)
        \/ InsertException(p)
        \/ UpdateOk(p)
        \/ UpdateNoData(p)
        \/ UpdateException(p)

SpecSeq == Init /\ [][NextSeq]_vars

\* sessions run concurrently and every backend call succeeds
NextAllSucceed ==
    \E p \in Procs :
        \/ \E f \in Submissions : Submit(p, f)
        \/ RpcOk(p)
        \/ InsertOk(p)
        \/ UpdateOk(p)

InitAllSucceed == Init /\ supabase

SpecAllSucceed == InitAllSucceed /\ [][NextAllSucceed]_vars

(***************************************************************************)
(* The contact directory: add_contact, update_contact and delete_contact,  *)
(* one action per backend call and outcome.  Every script run begins by    *)
(* fetching the contact list.                                              *)
(***************************************************************************)
ContactC == <<"B", "o">>

\* what is typed into the "New Contact Name" box
AddNames == { <<" ">>, ContactC, <<"A", "l", " ">> }

\* what is typed into the "Edit Name" box
EditNames == { ContactC, ContactB }

\* str.strip(), for the blank
RECURSIVE LStrip(_)
LStrip(t) == IF t # <<>> /\ t[1] = " " THEN LStrip(Tail(t)) ELSE t

RECURSIVE RStrip(_)
RStrip(t) ==
    IF t # <<>> /\ t[Len(t)] = " " THEN RStrip(SubSeq(t, 1, Len(t) - 1)) ELSE t

Strip(t) == RStrip(LStrip(t))

\* a script run of the contact pages begins: contacts are fetched, the
\* messages of the previous run are gone
BeginContactCall(p, id, nm) ==
    /\ pc[p] \in {"idle", "done"}
    /\ submitted < MaxSubmissions
    /\ submitted' = submitted + 1
    /\ contacts_data' = [contacts_data EXCEPT ![p] = FetchedContacts]
    /\ contact_id' = [contact_id EXCEPT ![p] = id]
    /\ contact_name' = [contact_name EXCEPT ![p] = nm]
    /\ address_count' = [address_count EXCEPT ![p] = 0]
    /\ msgs' = [msgs EXCEPT ![p] = <<>>]
    /\ ret' = [ret EXCEPT ![p] = "None"]

\* a contact function returns r having shown m; its locals are dropped
ContactReturn(p, r, m) ==
    /\ pc' = [pc EXCEPT ![p] = "done"]
    /\ ret' = [ret EXCEPT ![p] = r]
    /\ msgs' = [msgs EXCEPT ![p] = m]
    /\ contact_id' = [contact_id EXCEPT ![p] = 0]
    /\ contact_name' = [contact_name EXCEPT ![p] = None]
    /\ address_count' = [address_count EXCEPT ![p] = 0]

\* what the contact functions never touch
dispatch_state == <<last_no, records, locals, base, initial_last_no, args,
                    chosen, inserted, session>>

\* add_contact with an empty or blank name
AddContactEmpty(p, nm) ==
    /\ pc[p] \in {"idle", "done"}
    /\ submitted < MaxSubmissions
    /\ nm = <<>> \/ Strip(nm) = <<>>
    /\ submitted' = submitted + 1
    /\ contacts_data' = [contacts_data EXCEPT ![p] = FetchedContacts]
    /\ ContactReturn(p, "False",
                     <<Msg("warning", "Please enter a contact name.", None)>>)
    /\ UNCHANGED <<supabase, directory, dispatch_state, manage>>

\* add_contact with no client
AddContactNoClient(p, nm) ==
    /\ pc[p] \in {"idle", "done"}
    /\ submitted < MaxSubmissions
    /\ ~(nm = <<>> \/ Strip(nm) = <<>>)
    /\ ~supabase
    /\ submitted' = submitted + 1
    /\ contacts_data' = [contacts_data EXCEPT ![p] = FetchedContacts]
    /\ ContactReturn(p, "False",
                     <<Msg("error", "Supabase connection not available.", None)>>)
    /\ UNCHANGED <<supabase, directory, dispatch_state, manage>>

\* entry of add_contact: proceed to the existence query
AddContact(p, nm) ==
    /\ ~(nm = <<>> \/ Strip(nm) = <<>>)
    /\ supabase
    /\ BeginContactCall(p, 0, nm)
    /\ pc' = [pc EXCEPT ![p] = "add_check"]
    /\ UNCHANGED <<supabase, directory, dispatch_state, manage>>

\* the existence query of add_contact finds a row of that name
AddCheckExists(p) ==
    /\ pc[p] = "add_check"
    /\ \E r \in contacts : r.name = Strip(contact_name[p])
    /\ ContactReturn(p, "False",
                     <<Msg("warning", "already exists.", Strip(contact_name[p]))>>)
    /\ UNCHANGED <<supabase, directory, dispatch_state, manage, submitted,
                   contacts_data>>


\* the existence query of add_contact finds no row of that name
AddCheckFree(p) ==
    /\ pc[p] = "add_check"
    /\ ~\E r \in contacts : r.name = Strip(contact_name[p])
    /\ pc' = [pc EXCEPT ![p] = "add_insert"]
    /\ UNCHANGED <<supabase, directory, dispatch_state, manage, submitted,
                   contacts_data, contact_op, ret, msgs>>

\* the insert into contacts returns the new row; the page then resets its
\* edit and delete state
AddInsertOk(p) ==
    /\ pc[p] = "add_insert"
    /\ contacts' = contacts \cup
                     {[id |-> next_id, name |-> Strip(contact_name[p])]}
    /\ next_id' = next_id + 1
    /\ ContactReturn(p, "True",
                     <<Msg("success", "Added contact", Strip(contact_name[p]))>>)
    /\ edit_contact_id' = [edit_contact_id EXCEPT ![p] = NoId]
    /\ delete_contact_id' = [delete_contact_id EXCEPT ![p] = NoId]
    /\ confirm_delete' = [confirm_delete EXCEPT ![p] = FALSE]
    /\ UNCHANGED <<supabase, dispatch_state, edit_contact_name,
                   contact_to_delete_name, submitted, contacts_data>>

\* the insert into contacts returns no data
AddInsertNoData(p) ==
    /\ pc[p] = "add_insert"
    /\ ContactReturn(p, "False",
                     <<Msg("error", "Failed to add contact", None)>>)
    /\ UNCHANGED <<supabase, directory, dispatch_state, manage, submitted,
                   contacts_data>>

\* a backend call of add_contact raises
AddContactException(p) ==
    /\ pc[p] \in {"add_check", "add_insert"}
    /\ ContactReturn(p, "False",
                     <<Msg("error", "Error adding contact", None)>>)
    /\ UNCHANGED <<supabase, directory, dispatch_state, manage, submitted,
                   contacts_data>>

\* update_contact with an empty or blank name
UpdateContactEmpty(p, id, nm) ==
    /\ pc[p] \in {"idle", "done"}
    /\ submitted < MaxSubmissions
    /\ nm = <<>> \/ Strip(nm) = <<>>
    /\ submitted' = submitted + 1
    /\ contacts_data' = [contacts_data EXCEPT ![p] = FetchedContacts]
    /\ ContactReturn(p, "False",
                     <<Msg("warning", "Please enter a contact name.", None)>>)
    /\ UNCHANGED <<supabase, directory, dispatch_state, manage>>

\* update_contact with no client
UpdateContactNoClient(p, id, nm) ==
    /\ pc[p] \in {"idle", "done"}
    /\ submitted < MaxSubmissions
    /\ ~(nm = <<>> \/ Strip(nm) = <<>>)
    /\ ~supabase
    /\ submitted' = submitted + 1
    /\ contacts_data' = [contacts_data EXCEPT ![p] = FetchedContacts]
    /\ ContactReturn(p, "False",
                     <<Msg("error", "Supabase connection not available.", None)>>)
    /\ UNCHANGED <<supabase, directory, dispatch_state, manage>>

\* entry of update_contact for a row of this run's contact list: proceed to
\* the existence query
UpdateContact(p, id, nm) ==
    /\ ~(nm = <<>> \/ Strip(nm) = <<>>)
    /\ supabase
    /\ \E r \in FetchedContacts : r.id = id
    /\ BeginContactCall(p, id, nm)
    /\ pc' = [pc EXCEPT ![p] = "upd_check"]
    /\ UNCHANGED <<supabase, directory, dispatch_state, manage>>

\* the existence query of update_contact finds the name on another row
UpdCheckExists(p) ==
    /\ pc[p] = "upd_check"
    /\ \E r \in contacts :
           r.name = Strip(contact_name[p]) /\ r.id # contact_id[p]
    /\ ContactReturn(p, "False",
                     <<Msg("warning", "already exists.", Strip(contact_name[p]))>>)
    /\ UNCHANGED <<supabase, directory, dispatch_state, manage, submitted,
                   contacts_data>>

\* the existence query of update_contact finds the name on no other row
UpdCheckFree(p) ==
    /\ pc[p] = "upd_check"
    /\ ~\E r \in contacts :
           r.name = Strip(contact_name[p]) /\ r.id # contact_id[p]
    /\ pc' = [pc EXCEPT ![p] = "upd_exec"]
    /\ UNCHANGED <<supabase, directory, dispatch_state, manage, submitted,
                   contacts_data, contact_op, ret, msgs>>

\* a plausible slip: the rename is carried into the stored dispatch records
UpdExecOk_Cascade(p) ==
    /\ pc[p] = "upd_exec"
    /\ \E r \in contacts : r.id = contact_id[p]
    /\ contacts' = {IF r.id = contact_id[p]
                      THEN [r EXCEPT !.name = Strip(contact_name[p])]
                      ELSE r : r \in contacts}
    /\ records' = [i \in DOMAIN records |->
                     IF \E r \in contacts :
                           r.id = contact_id[p] /\ r.name = records[i].Address
                     THEN [records[i] EXCEPT !.Address = Strip(contact_name[p])]
                     ELSE records[i]]
    /\ ContactReturn(p, "True",
                     <<Msg("success", "Updated contact to",
                           Strip(contact_name[p]))>>)
    /\ edit_contact_id' = [edit_contact_id EXCEPT ![p] = NoId]
    /\ edit_contact_name' = [edit_contact_name EXCEPT ![p] = None]
    /\ UNCHANGED <<supabase, next_id, last_no, locals, base, initial_last_no,
                   args, chosen, inserted, session, delete_contact_id,
                   contact_to_delete_name, confirm_delete, submitted,
                   contacts_data>>

\* the update of the contact row returns the updated row; the page then
\* leaves edit mode
UpdExecOk(p) ==
    /\ pc[p] = "upd_exec"
    /\ \E r \in contacts : r.id = contact_id[p]
    /\ contacts' = {IF r.id = contact_id[p]
                      THEN [r EXCEPT !.name = Strip(contact_name[p])]
                      ELSE r : r \in contacts}
    /\ ContactReturn(p, "True",
                     <<Msg("success", "Updated contact to",
                           Strip(contact_name[p]))>>)
    /\ edit_contact_id' = [edit_contact_id EXCEPT ![p] = NoId]
    /\ edit_contact_name' = [edit_contact_name EXCEPT ![p] = None]
    /\ UNCHANGED <<supabase, next_id, dispatch_state, delete_contact_id,
                   contact_to_delete_name, confirm_delete, submitted,
                   contacts_data>>

\* the update returns no data: the row is gone, or the backend reports an
\* error
UpdExecNoData(p) ==
    /\ pc[p] = "upd_exec"
    /\ ContactReturn(p, "False",
                     <<Msg("error", "Failed to update contact", None)>>)
    /\ UNCHANGED <<supabase, directory, dispatch_state, manage, submitted,
                   contacts_data>>

\* a backend call of update_contact raises
UpdateContactException(p) ==
    /\ pc[p] \in {"upd_check", "upd_exec"}
    /\ ContactReturn(p, "False",
                     <<Msg("error", "Error updating contact", None)>>)
    /\ UNCHANGED <<supabase, directory, dispatch_state, manage, submitted,
                   contacts_data>>

\* needle occurs in hay as a contiguous run: SQL  hay LIKE '%needle%'
Contains(hay, needle) ==
    \E i \in 0..(Len(hay) - Len(needle)) :
        SubSeq(hay, i + 1, i + Len(needle)) = needle

\* count of the query  .eq('Address', nm)
AddressCount(nm) ==
    Cardinality({i \in DOMAIN records : records[i].Address = nm})

\* a plausible slip: the CC query is left out of the usage check
CCCount_Never(nm) == 0

\* count of the query  .like('CC', '%nm%'); a NULL CC matches nothing
CCCount(nm) ==
    Cardinality({i \in DOMAIN records :
                    /\ records[i].CC # None
                    /\ Contains(records[i].CC, nm)})

\* delete_contact with no client
DeleteContactNoClient(p, id, nm) ==
    /\ pc[p] \in {"idle", "done"}
    /\ submitted < MaxSubmissions
    /\ ~supabase
    /\ submitted' = submitted + 1
    /\ contacts_data' = [contacts_data EXCEPT ![p] = FetchedContacts]
    /\ ContactReturn(p, "False",
                     <<Msg("error", "Supabase connection not available.", None)>>)
    /\ UNCHANGED <<supabase, directory, dispatch_state, manage>>

\* entry of delete_contact for a row of this run's contact list: proceed to
\* the Address query
DeleteContact(p, id, nm) ==
    /\ supabase
    /\ [id |-> id, name |-> nm] \in FetchedContacts
    /\ BeginContactCall(p, id, nm)
    /\ pc' = [pc EXCEPT ![p] = "del_addr"]
    /\ UNCHANGED <<supabase, directory, dispatch_state, manage>>

\* the Address query answers
DelCheckAddress(p) ==
    /\ pc[p] = "del_addr"
    /\ address_count' = [address_count EXCEPT ![p] = AddressCount(contact_name[p])]
    /\ pc' = [pc EXCEPT ![p] = "del_cc"]
    /\ UNCHANGED <<supabase, directory, dispatch_state, manage, submitted,
                   contacts_data, contact_id, contact_name, ret, msgs>>

\* the CC query answers and one of the two counts is positive: refusal
DelRefused(p) ==
    /\ pc[p] = "del_cc"
    /\ address_count[p] > 0 \/ CCCount(contact_name[p]) > 0
    /\ ContactReturn(p, "False",
                     <<Msg("warning", "Cannot delete", contact_name[p])>>)
    /\ UNCHANGED <<supabase, directory, dispatch_state, manage, submitted,
                   contacts_data>>

\* the CC query answers and both counts are zero: proceed to the delete
DelCheckFree(p) ==
    /\ pc[p] = "del_cc"
    /\ ~(address_count[p] > 0 \/ CCCount(contact_name[p]) > 0)
    /\ pc' = [pc EXCEPT ![p] = "del_exec"]
    /\ UNCHANGED <<supabase, directory, dispatch_state, manage, submitted,
                   contacts_data, contact_op, ret, msgs>>

\* the delete returns the deleted row; the page then clears its delete state
DelExecOk(p) ==
    /\ pc[p] = "del_exec"
    /\ \E r \in contacts : r.id = contact_id[p]
    /\ contacts' = {r \in contacts : r.id # contact_id[p]}
    /\ ContactReturn(p, "True",
                     <<Msg("success", "deleted", contact_name[p])>>)
    /\ delete_contact_id' = [delete_contact_id EXCEPT ![p] = NoId]
    /\ contact_to_delete_name' = [contact_to_delete_name EXCEPT ![p] = None]
    /\ confirm_delete' = [confirm_delete EXCEPT ![p] = FALSE]
    /\ UNCHANGED <<supabase, next_id, dispatch_state, edit_contact_id,
                   edit_contact_name, submitted, contacts_data>>

\* the delete returns no data: the row is gone already, or the backend
\* reports an error
DelExecNoData(p) ==
    /\ pc[p] = "del_exec"
    /\ ContactReturn(p, "False",
                     <<Msg("error", "Failed to delete contact", None)>>)
    /\ UNCHANGED <<supabase, directory, dispatch_state, manage, submitted,
                   contacts_data>>

\* a backend call of delete_contact raises
DeleteContactException(p) ==
    /\ pc[p] \in {"del_addr", "del_cc", "del_exec"}
    /\ ContactReturn(p, "False",
                     <<Msg("error", "Error deleting contact", None)>>)
    /\ UNCHANGED <<supabase, directory, dispatch_state, manage, submitted,
                   contacts_data>>

(***************************************************************************)
(* The dispatch form's required-field check, View Records, login, logout.  *)
(***************************************************************************)
\* "Add Record" pressed on an incomplete form: a warning, insert_data is
\* not called
FormRejected(p, f) ==
    /\ pc[p] \in {"idle", "done"}
    /\ submitted < MaxSubmissions
    /\ ~FormComplete(f)
    /\ submitted' = submitted + 1
    /\ contacts_data' = [contacts_data EXCEPT ![p] = FetchedContacts]
    /\ pc' = [pc EXCEPT ![p] = "done"]
    /\ ret' = [ret EXCEPT ![p] = "None"]
    /\ msgs' = [msgs EXCEPT ![p] =
                  <<Msg("warning", "Please fill in all required fields", None)>>]
    /\ UNCHANGED <<supabase, db, locals, base, initial_last_no, args, chosen, inserted,
                   frame>>

\* fetch_data with no date filter: the records are read and shown
FetchData(p) ==
    /\ pc[p] \in {"idle", "done"}
    /\ submitted < MaxSubmissions
    /\ submitted' = submitted + 1
    /\ contacts_data' = [contacts_data EXCEPT ![p] = FetchedContacts]
    /\ pc' = [pc EXCEPT ![p] = "done"]
    /\ ret' = [ret EXCEPT ![p] = "None"]
    /\ msgs' = [msgs EXCEPT ![p] =
                  IF supabase /\ records # <<>>
                  THEN <<Msg("info", "Displaying records", NatToStr(Len(records)))>>
                  ELSE <<Msg("info", "No records found", None)>>]
    /\ UNCHANGED <<supabase, db, locals, base, initial_last_no, args, chosen, inserted,
                   frame>>

\* the query of fetch_data raises
FetchDataException(p) ==
    /\ pc[p] \in {"idle", "done"}
    /\ submitted < MaxSubmissions
    /\ supabase
    /\ submitted' = submitted + 1
    /\ contacts_data' = [contacts_data EXCEPT ![p] = FetchedContacts]
    /\ pc' = [pc EXCEPT ![p] = "done"]
    /\ ret' = [ret EXCEPT ![p] = "None"]
    /\ msgs' = [msgs EXCEPT ![p] =
                  <<Msg("error", "Error fetching data", None),
                    Msg("info", "No records found", None)>>]
    /\ UNCHANGED <<supabase, db, locals, base, initial_last_no, args, chosen, inserted,
                   frame>>

\* the users table: username, display name
UsersTable ==
    { [username |-> <<"a", "d", "a">>, name |-> <<"A", "d", "a">>],
      [username |-> <<"r", "a", "j">>, name |-> <<"R", "a", "j", "a">>] }

\* what is typed into the Username box
Usernames == { <<"a", "d", "a">>, <<"r", "a", "j">>, <<"e", "v", "e">> }

\* fetch_users at the top of a script run: a dictionary keyed by username,
\* empty with no client
users == IF supabase THEN UsersTable ELSE {}

\* the login form is on display
LoginFormShown(p) == authentication_status[p] \in {"None", "False"}

\* a plausible slip: the display name is taken from the typed username
LoginOk_NameIsUsername(p, u) ==
    /\ pc[p] \in {"idle", "done"}
    /\ LoginFormShown(p)
    /\ \E r \in users : r.username = u
    /\ authentication_status' = [authentication_status EXCEPT ![p] = "True"]
    /\ username' = [username EXCEPT ![p] = u]
    /\ name' = [name EXCEPT ![p] = u]
    /\ msgs' = [msgs EXCEPT ![p] =
                  <<Msg("success", "Logged in successfully!", None)>>]
    /\ contacts_data' = [contacts_data EXCEPT ![p] = FetchedContacts]
    /\ UNCHANGED <<supabase, db, pc, locals, ret, base, initial_last_no,
                   submitted, args, chosen, inserted, directory, contact_op, manage>>

\* "Login" pressed with a username that is a key of users
LoginOk(p, u) ==
    /\ pc[p] \in {"idle", "done"}
    /\ LoginFormShown(p)
    /\ \E r \in users : r.username = u
    /\ authentication_status' = [authentication_status EXCEPT ![p] = "True"]
    /\ username' = [username EXCEPT ![p] = u]
    /\ name' = [name EXCEPT ![p] =
                  (CHOOSE r \in users : r.username = u).name]
    /\ msgs' = [msgs EXCEPT ![p] =
                  <<Msg("success", "Logged in successfully!", None)>>]
    /\ contacts_data' = [contacts_data EXCEPT ![p] = FetchedContacts]
    /\ UNCHANGED <<supabase, db, pc, locals, ret, base, initial_last_no,
                   submitted, args, chosen, inserted, directory, contact_op, manage>>

\* "Login" pressed with any other username
LoginIncorrect(p, u) ==
    /\ pc[p] \in {"idle", "done"}
    /\ LoginFormShown(p)
    /\ ~\E r \in users : r.username = u
    /\ authentication_status' = [authentication_status EXCEPT ![p] = "False"]
    /\ msgs' = [msgs EXCEPT ![p] = <<Msg("error", "Incorrect username", None)>>]
    /\ contacts_data' = [contacts_data EXCEPT ![p] = FetchedContacts]
    /\ UNCHANGED <<supabase, db, pc, locals, ret, base, initial_last_no,
                   submitted, args, chosen, inserted, directory, contact_op, manage, username,
                   name>>

\* "Logout" pressed by a logged-in session
Logout(p) ==
    /\ pc[p] \in {"idle", "done"}
    /\ authentication_status[p] = "True"
    /\ authentication_status' = [authentication_status EXCEPT ![p] = "False"]
    /\ username' = [username EXCEPT ![p] = None]
    /\ name' = [name EXCEPT ![p] = None]
    /\ msgs' = [msgs EXCEPT ![p] = <<>>]
    /\ contacts_data' = [contacts_data EXCEPT ![p] = FetchedContacts]
    /\ UNCHANGED <<supabase, db, pc, locals, ret, base, initial_last_no,
                   submitted, args, chosen, inserted, directory, contact_op, manage>>

(***************************************************************************)
(* The Manage Contacts page: its buttons and what a script run of the page *)
(* renders.  The "Edit Contact" form and, nested in the same block, the     *)
(* "Confirm Deletion" prompt are rendered under                            *)
(*   if st.session_state.edit_contact_id is not None:                      *)
(***************************************************************************)
\* the contact rows listed by the page session p looks at have a row of
\* this id, and so has the list fetched by the run that handles the click
Listed(p, r) ==
    /\ r \in FetchedContacts
    /\ \E q \in contacts_data[p] : q.id = r.id

\* the edit form is rendered: the block of line 615 is entered and the
\* contact to edit is found in the fetched list
EditFormShown(p) ==
    /\ edit_contact_id[p] # NoId
    /\ \E q \in contacts_data[p] : q.id = edit_contact_id[p]

\* the "Confirm Deletion" prompt is rendered: line 650 is reached, inside
\* the block of line 615
ConfirmShown(p) ==
    /\ edit_contact_id[p] # NoId
    /\ confirm_delete[p]

\* the page is opened or rerun: the contacts are fetched and listed
OpenManage(p) ==
    /\ pc[p] \in {"idle", "done"}
    /\ supabase
    /\ edit_contact_id[p] # NoId =>
           \E q \in FetchedContacts : q.id = edit_contact_id[p]
    /\ contacts_data' = [contacts_data EXCEPT ![p] = FetchedContacts]
    /\ msgs' = [msgs EXCEPT ![p] = <<>>]
    /\ UNCHANGED <<supabase, db, pc, locals, ret, base, initial_last_no,
                   submitted, args, chosen, inserted, directory, contact_op, session,
                   manage>>

\* a run of the page in which fetch_contacts raises: the list is empty, and
\* a contact under edit is not found, which ends edit mode
ManageFetchFailed(p) ==
    /\ pc[p] \in {"idle", "done"}
    /\ submitted < MaxSubmissions
    /\ submitted' = submitted + 1
    /\ supabase
    /\ contacts_data' = [contacts_data EXCEPT ![p] = {}]
    /\ IF edit_contact_id[p] # NoId
       THEN /\ msgs' = [msgs EXCEPT ![p] =
                          <<Msg("error", "Error fetching contacts", None),
                            Msg("warning", "Contact not found for editing.", None)>>]
            /\ edit_contact_id' = [edit_contact_id EXCEPT ![p] = NoId]
            /\ edit_contact_name' = [edit_contact_name EXCEPT ![p] = None]
       ELSE /\ msgs' = [msgs EXCEPT ![p] =
                          <<Msg("error", "Error fetching contacts", None)>>]
            /\ UNCHANGED <<edit_contact_id, edit_contact_name>>
    /\ UNCHANGED <<supabase, db, pc, locals, ret, base, initial_last_no,
                   args, chosen, inserted, directory, contact_op, session,
                   delete_contact_id, contact_to_delete_name, confirm_delete>>

\* "Edit" clicked on a listed contact
ClickEdit(p, r) ==
    /\ pc[p] \in {"idle", "done"}
    /\ submitted < MaxSubmissions
    /\ submitted' = submitted + 1
    /\ Listed(p, r)
    /\ edit_contact_id' = [edit_contact_id EXCEPT ![p] = r.id]
    /\ edit_contact_name' = [edit_contact_name EXCEPT ![p] = r.name]
    /\ confirm_delete' = [confirm_delete EXCEPT ![p] = FALSE]
    /\ contacts_data' = [contacts_data EXCEPT ![p] = FetchedContacts]
    /\ msgs' = [msgs EXCEPT ![p] = <<>>]
    /\ UNCHANGED <<supabase, db, pc, locals, ret, base, initial_last_no,
                   args, chosen, inserted, directory, contact_op, session,
                   delete_contact_id, contact_to_delete_name>>

\* a plausible slip: "Delete" leaves the edit state as it is
ClickDelete_KeepsEdit(p, r) ==
    /\ pc[p] \in {"idle", "done"}
    /\ submitted < MaxSubmissions
    /\ submitted' = submitted + 1
    /\ Listed(p, r)
    /\ delete_contact_id' = [delete_contact_id EXCEPT ![p] = r.id]
    /\ contact_to_delete_name' = [contact_to_delete_name EXCEPT ![p] = r.name]
    /\ confirm_delete' = [confirm_delete EXCEPT ![p] = TRUE]
    /\ contacts_data' = [contacts_data EXCEPT ![p] = FetchedContacts]
    /\ msgs' = [msgs EXCEPT ![p] = <<>>]
    /\ UNCHANGED <<supabase, db, pc, locals, ret, base, initial_last_no,
                   args, chosen, inserted, directory, contact_op, session,
                   edit_contact_id, edit_contact_name>>

\* "Delete" clicked on a listed contact
ClickDelete(p, r) ==
    /\ pc[p] \in {"idle", "done"}
    /\ submitted < MaxSubmissions
    /\ submitted' = submitted + 1
    /\ Listed(p, r)
    /\ delete_contact_id' = [delete_contact_id EXCEPT ![p] = r.id]
    /\ contact_to_delete_name' = [contact_to_delete_name EXCEPT ![p] = r.name]
    /\ confirm_delete' = [confirm_delete EXCEPT ![p] = TRUE]
    /\ edit_contact_id' = [edit_contact_id EXCEPT ![p] = NoId]
    /\ contacts_data' = [contacts_data EXCEPT ![p] = FetchedContacts]
    /\ msgs' = [msgs EXCEPT ![p] = <<>>]
    /\ UNCHANGED <<supabase, db, pc, locals, ret, base, initial_last_no,
                   args, chosen, inserted, directory, contact_op, session,
                   edit_contact_name>>

\* "Cancel" clicked in the edit form
CancelEdit(p) ==
    /\ pc[p] \in {"idle", "done"}
    /\ submitted < MaxSubmissions
    /\ submitted' = submitted + 1
    /\ EditFormShown(p)
    /\ \E q \in FetchedContacts : q.id = edit_contact_id[p]
    /\ edit_contact_id' = [edit_contact_id EXCEPT ![p] = NoId]
    /\ edit_contact_name' = [edit_contact_name EXCEPT ![p] = None]
    /\ contacts_data' = [contacts_data EXCEPT ![p] = FetchedContacts]
    /\ msgs' = [msgs EXCEPT ![p] = <<>>]
    /\ UNCHANGED <<supabase, db, pc, locals, ret, base, initial_last_no,
                   args, chosen, inserted, directory, contact_op, session,
                   delete_contact_id, contact_to_delete_name, confirm_delete>>

\* "Update Contact" pressed in the edit form: update_contact is called with
\* the id under edit
SubmitEdit(p, nm) ==
    /\ EditFormShown(p)
    /\ UpdateContact(p, edit_contact_id[p], nm)

\* "Update Contact" pressed in the edit form with a blank name
SubmitEditEmpty(p, nm) ==
    /\ EditFormShown(p)
    /\ \E q \in FetchedContacts : q.id = edit_contact_id[p]
    /\ UpdateContactEmpty(p, edit_contact_id[p], nm)

\* "Yes, Delete" clicked in the confirmation prompt: delete_contact is
\* called with the id and name the Delete click stored
ConfirmDelete(p) ==
    /\ ConfirmShown(p)
    /\ DeleteContact(p, delete_contact_id[p], contact_to_delete_name[p])

\* "Cancel" clicked in the confirmation prompt
CancelDelete(p) ==
    /\ pc[p] \in {"idle", "done"}
    /\ submitted < MaxSubmissions
    /\ submitted' = submitted + 1
    /\ ConfirmShown(p)
    /\ delete_contact_id' = [delete_contact_id EXCEPT ![p] = NoId]
    /\ contact_to_delete_name' = [contact_to_delete_name EXCEPT ![p] = None]
    /\ confirm_delete' = [confirm_delete EXCEPT ![p] = FALSE]
    /\ contacts_data' = [contacts_data EXCEPT ![p] = FetchedContacts]
    /\ msgs' = [msgs EXCEPT ![p] = <<>>]
    /\ UNCHANGED <<supabase, db, pc, locals, ret, base, initial_last_no,
                   args, chosen, inserted, directory, contact_op, session,
                   edit_contact_id, edit_contact_name>>

\* the Manage Contacts page, one form submission at a time.  The two
\* buttons of the confirmation prompt are pressed whenever the prompt is
\* rendered.
NextManage ==
    \E p \in Procs :
        \/ OpenManage(p)
        \/ ManageFetchFailed(p)
        \/ \E r \in contacts : ClickEdit(p, r)
        \/ \E r \in contacts : ClickDelete(p, r)
        \/ CancelEdit(p)
        \/ \E nm \in AddNames : Alone(p) /\ AddContactEmpty(p, nm)
        \/ \E nm \in AddNames : Alone(p) /\ AddContact(p, nm)
        \/ Alone(p) /\ SubmitEditEmpty(p, <<" ">>)
        \/ \E nm \in EditNames : Alone(p) /\ SubmitEdit(p, nm)
        \/ AddCheckExists(p)
        \/ AddCheckFree(p)
        \/ AddInsertOk(p)
        \/ AddInsertNoData(p)
        \/ AddContactException(p)
        \/ UpdCheckExists(p)
        \/ UpdCheckFree(p)
        \/ UpdExecOk(p)
        \/ UpdExecNoData(p)
        \/ UpdateContactException(p)

InitManage == Init /\ supabase /\ last_no = 0

SpecManage == InitManage /\ [][NextManage]_vars

(***************************************************************************)
(* Specifications of the whole application: the pages are shown to a       *)
(* logged-in session only.                                                 *)
(***************************************************************************)
\* a plausible slip: the gate written as "is not None", which a failed
\* login (status False) passes
Authenticated_NotNone(p) == authentication_status[p] # "None"

\* the gate of the main application
Authenticated(p) == authentication_status[p] = "True"

\* the backend calls of an operation under way, and their outcomes
ContinueOperation(p) ==
    \/ RpcError(p)
    \/ RpcNoData(p)
    \/ RpcException(p)
    \/ RpcOk(p)
    \/ InsertOk(p)
    \/ InsertNoData(p)
    \/ InsertException(p)
    \/ UpdateOk(p)
    \/ UpdateNoData(p)
    \/ UpdateException(p)
    \/ AddCheckExists(p)
    \/ AddCheckFree(p)
    \/ AddInsertOk(p)
    \/ AddInsertNoData(p)
    \/ AddContactException(p)
    \/ UpdCheckExists(p)
    \/ UpdCheckFree(p)
    \/ UpdExecOk(p)
    \/ UpdExecNoData(p)
    \/ UpdateContactException(p)
    \/ DelCheckAddress(p)
    \/ DelRefused(p)
    \/ DelCheckFree(p)
    \/ DelExecOk(p)
    \/ DelExecNoData(p)
    \/ DeleteContactException(p)

\* login and logout
Identify(p) ==
    \/ \E u \in Usernames : LoginOk(p, u)
    \/ \E u \in Usernames : LoginIncorrect(p, u)
    \/ Logout(p)

\* sessions run concurrently; a logged-in session begins an operation by a
\* button press (there is no login without a client, line 368).
\* delete_contact is called as its call site of line 660 calls it; the page
\* as written does not render that button (see SpecManage and C21).
NextApp ==
    \E p \in Procs :
        \/ Identify(p)
        \/ \E f \in Submissions : Authenticated(p) /\ Submit(p, f)
        \/ \E f \in IncompleteForms : Authenticated(p) /\ FormRejected(p, f)
        \/ Authenticated(p) /\ FetchData(p)
        \/ Authenticated(p) /\ FetchDataException(p)
        \/ \E nm \in AddNames : Authenticated(p) /\ AddContactEmpty(p, nm)
        \/ \E nm \in AddNames : Authenticated(p) /\ AddContact(p, nm)
        \/ \E r \in contacts :
              Authenticated(p) /\ UpdateContactEmpty(p, r.id, <<" ">>)
        \/ \E r \in contacts, nm \in EditNames :
              Authenticated(p) /\ UpdateContact(p, r.id, nm)
        \/ \E r \in contacts : Authenticated(p) /\ DeleteContact(p, r.id, r.name)
        \/ ContinueOperation(p)

SpecApp == Init /\ [][NextApp]_vars

\* the contact functions and insert_data called one at a time, every
\* backend call of insert_data succeeding
NextDirectorySeq ==
    \E p \in Procs :
        \/ \E f \in Submissions : Alone(p) /\ SubmitNoClient(p, f)
        \/ \E nm \in AddNames : Alone(p) /\ AddContactNoClient(p, nm)
        \/ \E nm \in EditNames : Alone(p) /\ UpdateContactNoClient(p, IdA, nm)
        \/ Alone(p) /\ DeleteContactNoClient(p, IdA, ContactA)
        \/ \E r \in contacts : Alone(p) /\ UpdateContactEmpty(p, r.id, <<" ">>)
        \/ \E f \in Submissions : Alone(p) /\ Submit(p, f)
        \/ RpcOk(p)
        \/ InsertOk(p)
        \/ UpdateOk(p)
        \/ \E nm \in AddNames : Alone(p) /\ AddContactEmpty(p, nm)
        \/ \E nm \in AddNames : Alone(p) /\ AddContact(p, nm)
        \/ \E r \in contacts, nm \in EditNames :
              Alone(p) /\ UpdateContact(p, r.id, nm)
        \/ \E r \in contacts : Alone(p) /\ DeleteContact(p, r.id, r.name)
        \/ AddCheckExists(p)
        \/ AddCheckFree(p)
        \/ AddInsertOk(p)
        \/ AddInsertNoData(p)
        \/ AddContactException(p)
        \/ UpdCheckExists(p)
        \/ UpdCheckFree(p)
        \/ UpdExecOk(p)
        \/ UpdExecNoData(p)
        \/ UpdateContactException(p)
        \/ DelCheckAddress(p)
        \/ DelRefused(p)
        \/ DelCheckFree(p)
        \/ DelExecOk(p)
        \/ DelExecNoData(p)
        \/ DeleteContactException(p)

InitDirectory == Init /\ last_no = 0

SpecDirectorySeq == InitDirectory /\ [][NextDirectorySeq]_vars

\* login, logout and the pages that change nothing
NextLogin ==
    \E p \in Procs :
        \/ Identify(p)
        \/ Authenticated(p) /\ \E f \in IncompleteForms : FormRejected(p, f)
        \/ Authenticated(p) /\ FetchData(p)
        \/ Authenticated(p) /\ FetchDataException(p)

SpecLogin == Init /\ [][NextLogin]_vars

\* the inputs of the gated run: a registered username, an unknown one and a
\* dispatch to a contact with a copy to the same contact
Registered == <<"a", "d", "a">>

Stranger == <<"e", "v", "e">>

CopiedDispatch == Form(DB, Today, ContactB, <<ContactB>>, SubjectText, <<>>)

\* one session acts at a time: login attempts, logouts and one call site of
\* each writing function, each behind the gate of line 404; the backend
\* calls of insert_data succeed
NextGateSeq ==
    \E p \in Procs :
        \/ Alone(p) /\ LoginOk(p, Registered)
        \/ Alone(p) /\ LoginIncorrect(p, Stranger)
        \/ Alone(p) /\ Logout(p)
        \/ Alone(p) /\ Authenticated(p) /\ Submit(p, CopiedDispatch)
        \/ RpcOk(p)
        \/ InsertOk(p)
        \/ UpdateOk(p)
        \/ Alone(p) /\ Authenticated(p) /\ AddContact(p, ContactC)
        \/ AddCheckExists(p)
        \/ AddCheckFree(p)
        \/ AddInsertOk(p)
        \/ Alone(p) /\ Authenticated(p) /\ UpdateContact(p, IdA, ContactC)
        \/ UpdCheckExists(p)
        \/ UpdCheckFree(p)
        \/ UpdExecOk(p)
        \/ Alone(p) /\ Authenticated(p) /\ DeleteContact(p, IdB, ContactB)
        \/ DelCheckAddress(p)
        \/ DelRefused(p)
        \/ DelCheckFree(p)
        \/ DelExecOk(p)

SpecGateSeq == InitDirectory /\ [][NextGateSeq]_vars

\* the dispatch form, one submission at a time: "Add Record" is pressed on
\* any form and the required-field check decides
NextFormSeq ==
    \E p \in Procs :
        \/ \E f \in Submissions \cup IncompleteForms :
              Alone(p) /\ FormRejected(p, f)
        \/ \E f \in Submissions \cup IncompleteForms :
              Alone(p) /\ SubmitNoClient(p, f)
        \/ \E f \in Submissions \cup IncompleteForms :
              Alone(p) /\ Submit(p, f)
        \/ RpcError(p)
        \/ RpcNoData(p)
        \/ RpcException(p)
        \/ RpcOk(p)
        \/ InsertOk(p)
        \/ InsertNoData(p)
        \/ InsertException(p)
        \/ UpdateOk(p)
        \/ UpdateNoData(p)
        \/ UpdateException(p)

SpecFormSeq == Init /\ [][NextFormSeq]_vars

(***************************************************************************)
(* Reading a dispatch number back from its text.                           *)
(***************************************************************************)
IsDigit(c) == \E i \in DOMAIN Digits : Digits[i] = c

DigitVal(c) == (CHOOSE i \in DOMAIN Digits : Digits[i] = c) - 1

RECURSIVE StrToNat(_)
StrToNat(t) ==
    IF t = <<>> THEN 0
    ELSE 10 * StrToNat(SubSeq(t, 1, Len(t) - 1)) + DigitVal(t[Len(t)])

\* t is the decimal numeral of n: digits only, no leading zero
IsDecimalOf(t, n) ==
    /\ t # <<>>
    /\ \A i \in DOMAIN t : IsDigit(t[i])
    /\ Len(t) > 1 => t[1] # "0"
    /\ StrToNat(t) = n

\* the text after the last "/"
NumberPart(no) ==
    LET i == CHOOSE k \in DOMAIN no :
                 no[k] = "/" /\ \A j \in (k + 1)..Len(no) : no[j] # "/"
    IN SubSeq(no, i + 1, Len(no))

Dashes(t) == {k \in DOMAIN t : t[k] = "-"}

StartOf(no) ==
    LET t == NumberPart(no)
    IN IF Dashes(t) = {} THEN StrToNat(t)
       ELSE StrToNat(SubSeq(t, 1, (CHOOSE k \in Dashes(t) : TRUE) - 1))

EndOf(no) ==
    LET t == NumberPart(no)
    IN IF Dashes(t) = {} THEN StrToNat(t)
       ELSE StrToNat(SubSeq(t, (CHOOSE k \in Dashes(t) : TRUE) + 1, Len(t)))

\* the numbers a stored record occupies
RangeOf(r) == StartOf(r.No)..EndOf(r.No)

\* no is "HDU/" + sec + "/" + start when c = 0, and
\* "HDU/" + sec + "/" + start + "-" + (start + c) when c > 0
WellFormedNo(no, sec, start, c) ==
    LET prefix == <<"H", "D", "U", "/">> \o sec \o <<"/">>
        t == SubSeq(no, Len(prefix) + 1, Len(no))
    IN /\ Len(no) > Len(prefix)
       /\ SubSeq(no, 1, Len(prefix)) = prefix
       /\ IF c = 0
          THEN IsDecimalOf(t, start)
          ELSE \E k \in DOMAIN t :
                  /\ t[k] = "-"
                  /\ IsDecimalOf(SubSeq(t, 1, k - 1), start)
                  /\ IsDecimalOf(SubSeq(t, k + 1, Len(t)), start + c)

Quiet == \A p \in Procs : pc[p] \in {"idle", "done"}

(***************************************************************************)
(* Claims.                                                                 *)
(***************************************************************************)

\* C1: when concurrent submissions whose every step succeeded have all
\* returned, the ranges written into the stored records are pairwise
\* disjoint and their union is the contiguous block of integers that begins
\* at the initial last_no + 1.
C1_RangesDisjointContiguous ==
    Quiet =>
      LET all == UNION {RangeOf(records[i]) : i \in DOMAIN records}
      IN /\ \A i, j \in DOMAIN records :
               i # j => RangeOf(records[i]) \cap RangeOf(records[j]) = {}
         /\ all = (initial_last_no + 1)..(initial_last_no + Cardinality(all))

\* C2: no step of any execution decreases dispatch_sequence.last_no.
C2_LastNoMonotonic == [][last_no' >= last_no]_vars

\* C3: of any two stored records, the one inserted later has a start number
\* strictly greater than the end number of the one inserted earlier.
C3_LaterRecordHigher ==
    \A i, j \in DOMAIN records :
        i < j => StartOf(records[j].No) > EndOf(records[i].No)

\* C4: the record insert_data stores carries No = "HDU/" + section + "/" +
\* start for an empty CC list and "HDU/" + section + "/" + start + "-" +
\* (start + c) for c > 0 CC recipients, where start is the number the RPC
\* returned; start and end are positive.
C4_NoFormat ==
    [][\A p \in Procs :
          InsertOk(p) =>
             /\ Len(records') = Len(records) + 1
             /\ WellFormedNo(records'[Len(records')].No, section[p],
                             next_dispatch_number[p], Len(cc_list[p]))
             /\ next_dispatch_number[p] >= 1
             /\ next_dispatch_number[p] + Len(cc_list[p]) >= 1]_vars

\* C4 witness: a record with a single number and a record with a range are
\* both stored
C4_Witness ==
    \E i, j \in DOMAIN records :
        /\ Dashes(NumberPart(records[i].No)) = {}
        /\ Dashes(NumberPart(records[j].No)) # {}

\* C5: with submissions run one at a time, a submission with c CC
\* recipients begun at last_no = L whose every step succeeds stores the range
\* [L+1, L+1+c] and leaves last_no = L+1+c; from 41, two CCs give
\* "HDU/ACCTS/42-44" and last_no = 44, and a following submission without CC
\* gives "HDU/ACCTS/45" and last_no = 45.
C5_SequentialAllocation ==
    [][\A p \in Procs :
          UpdateOk(p) =>
             LET c == Len(cc_list[p])
                 L == base[p]
                 no == records[Len(records)].No
             IN /\ StartOf(no) = L + 1
                /\ EndOf(no) = L + 1 + c
                /\ last_no' = L + 1 + c
                /\ ret'[p] = "True"
                /\ (L = 41 /\ section[p] = ACCTS /\ c = 2) =>
                      /\ no = <<"H", "D", "U", "/", "A", "C", "C", "T", "S",
                                "/", "4", "2", "-", "4", "4">>
                      /\ last_no' = 44
                /\ (L = 44 /\ section[p] = ACCTS /\ c = 0) =>
                      /\ no = <<"H", "D", "U", "/", "A", "C", "C", "T", "S",
                                "/", "4", "5">>
                      /\ last_no' = 45]_vars

\* C5 witness: the end-to-end scenario has run from last_no = 41
C5_Witness ==
    /\ initial_last_no = 41
    /\ Quiet
    /\ Len(records) = 2
    /\ records[1].No = <<"H", "D", "U", "/", "A", "C", "C", "T", "S",
                         "/", "4", "2", "-", "4", "4">>
    /\ records[2].No = <<"H", "D", "U", "/", "A", "C", "C", "T", "S",
                         "/", "4", "5">>
    /\ last_no = 45

\* C6: every step that changes dispatch_sequence.last_no is an execution
\* of the get_next_dispatch_no RPC.
C6_OnlyRpcWritesLastNo ==
    [][last_no' # last_no => \E p \in Procs : RpcOk(p)]_vars

\* C7: when the record insert of a submission running alone fails,
\* insert_data returns False with last_no equal to its value before the
\* submission began.
C7_FailedInsertRestoresCounter ==
    [][\A p \in Procs :
          (InsertNoData(p) \/ InsertException(p)) =>
             /\ ret'[p] = "False"
             /\ last_no' = base[p]]_vars

\* C8: when the record insert fails after start s was reserved for c CC
\* recipients, last_no covers the whole reservation (last_no >= s + c) or is
\* back at exactly its value before the reservation.
C8_FailedInsertKeepsReservation ==
    [][\A p \in Procs :
          (InsertNoData(p) \/ InsertException(p)) =>
             \/ last_no' >= next_dispatch_number[p] + Len(cc_list[p])
             \/ last_no' = next_dispatch_number[p] - 1]_vars

\* C9: whenever the insert succeeded and the update of last_no then fails
\* (raises, or returns no data), insert_data has emitted a warning naming the
\* saved dispatch number when it returns.
C9_SequenceFailureWarned ==
    [][\A p \in Procs :
          (UpdateNoData(p) \/ UpdateException(p)) =>
             /\ pc'[p] = "done"
             /\ \E k \in DOMAIN records : records[k].No = generated_no[p]
             /\ \E i \in DOMAIN msgs'[p] :
                   /\ msgs'[p][i].kind = "warning"
                   /\ msgs'[p][i].no = generated_no[p]]_vars

\* C9 witness: a submission has returned True with a warning that names a
\* stored dispatch number
C9_Witness ==
    \E p \in Procs :
        /\ pc[p] = "done"
        /\ ret[p] = "True"
        /\ \E i \in DOMAIN msgs[p], k \in DOMAIN records :
              /\ msgs[p][i].kind = "warning"
              /\ msgs[p][i].no = records[k].No

\* C10: when there is no client, or the RPC raises, reports an error or
\* returns no data, insert_data shows an error and returns False, and the
\* submission inserts no record and leaves last_no as it was.
C10_UnavailableNothingApplied ==
    [][\A p \in Procs :
          /\ (\E f \in Submissions : Submit(p, f)) =>
                (records' = records /\ last_no' = last_no)
          /\ ( \/ \E f \in Submissions : SubmitNoClient(p, f)
               \/ RpcError(p)
               \/ RpcNoData(p)
               \/ RpcException(p) ) =>
                /\ pc'[p] = "done"
                /\ ret'[p] = "False"
                /\ \E i \in DOMAIN msgs'[p] : msgs'[p][i].kind = "error"
                /\ records' = records
                /\ last_no' = last_no]_vars

\* C10 witness: a submission has returned False on a failed RPC while
\* another session has a record stored
C10_Witness ==
    \E p \in Procs :
        /\ pc[p] = "done"
        /\ ret[p] = "False"
        /\ msgs[p][1].text = "Failed to get next dispatch number. RPC response invalid."
        /\ Len(records) = 1
        /\ last_no = EndOf(records[1].No)

\* an error or a warning is among the messages
Alerted(m) == \E i \in DOMAIN m : m[i].kind \in {"error", "warning"}

\* C11: when the RPC reports a conflict (an error response, or it raises),
\* insert_data tries the allocation again: the first conflict of a
\* submission does not make it return False.  (insert_data calls the RPC once
\* per submission, so every RPC step is a first attempt.)
C11_ConflictRetried ==
    [][\A p \in Procs :
          (RpcError(p) \/ RpcException(p)) =>
             (pc'[p] # "done" /\ ret'[p] # "False")]_vars

\* C12: whenever insert_data returns False, and whenever one of its three
\* backend steps (RPC, record insert, sequence update) fails, an error or a
\* warning has been shown when it returns.
C12_NoSilentFailure ==
    [][\A p \in Procs :
          /\ (pc'[p] = "done" /\ ret'[p] = "False") => Alerted(msgs'[p])
          /\ ( \/ RpcError(p) \/ RpcNoData(p) \/ RpcException(p)
               \/ InsertNoData(p) \/ InsertException(p)
               \/ UpdateNoData(p) \/ UpdateException(p) ) =>
                (pc'[p] = "done" /\ Alerted(msgs'[p]))]_vars

\* C12 witness: the insert raised and insert_data returned False with its
\* error shown
C12_Witness ==
    \E p \in Procs :
        /\ pc[p] = "done"
        /\ ret[p] = "False"
        /\ msgs[p] # <<>>
        /\ msgs[p][1] = Msg("error", "Error inserting/updating data", None)

\* C13: when the record insert fails after a number was reserved, insert_data
\* shows a warning (not only the generic error) that the reserved number may
\* be skipped or reused.
C13_ReservedNumberWarned ==
    [][\A p \in Procs :
          (InsertNoData(p) \/ InsertException(p)) =>
             \E i \in DOMAIN msgs'[p] : msgs'[p][i].kind = "warning"]_vars


(***************************************************************************)
(* The names a stored record refers to, read back from its text.           *)
(***************************************************************************)
\* the names of a stored CC text: the text split at ", "
RECURSIVE SplitCC(_)
SplitCC(t) ==
    IF \E i \in 1..(Len(t) - 1) : t[i] = "," /\ t[i + 1] = " "
    THEN LET i == CHOOSE k \in 1..(Len(t) - 1) :
                      /\ t[k] = "," /\ t[k + 1] = " "
                      /\ \A j \in 1..(k - 1) : ~(t[j] = "," /\ t[j + 1] = " ")
         IN  <<SubSeq(t, 1, i - 1)>> \o SplitCC(SubSeq(t, i + 2, Len(t)))
    ELSE <<t>>

\* the CC recipients of a stored record
Recipients(r) ==
    IF r.CC = None THEN {}
    ELSE {SplitCC(r.CC)[j] : j \in DOMAIN SplitCC(r.CC)}

\* some stored record has nm as its Address or among its CC recipients
InUse(nm) ==
    \E i \in DOMAIN records :
        records[i].Address = nm \/ nm \in Recipients(records[i])

\* session p returns from delete_contact in this step
DeleteReturns(p) ==
    pc[p] \in {"del_addr", "del_cc", "del_exec"} /\ pc'[p] = "done"

\* C14 as stated: run with no concurrent operation for a name that some
\* stored record has as Address or among its CC recipients, delete_contact
\* returns False, shows the 'Cannot delete' warning and leaves the contacts
\* table unchanged.
C14_ReferencedDeleteWarned ==
    [][\A p \in Procs :
          (DeleteReturns(p) /\ InUse(contact_name[p])) =>
             /\ ret'[p] = "False"
             /\ msgs'[p] = <<Msg("warning", "Cannot delete", contact_name[p])>>
             /\ contacts' = contacts]_vars

\* C14 amended: run with no concurrent operation for a name that some
\* stored record has as Address or among its CC recipients, delete_contact
\* returns False and leaves the contacts table unchanged; it shows the
\* 'Cannot delete' warning, or, when one of its usage queries raises, the
\* 'Error deleting contact' error.
C14_ReferencedDeleteRefused ==
    [][\A p \in Procs :
          (DeleteReturns(p) /\ InUse(contact_name[p])) =>
             /\ ret'[p] = "False"
             /\ contacts' = contacts
             /\ \/ msgs'[p] = <<Msg("warning", "Cannot delete", contact_name[p])>>
                \/ /\ pc[p] \in {"del_addr", "del_cc"}
                   /\ msgs'[p] = <<Msg("error", "Error deleting contact", None)>>]_vars

\* a delete of a contact that is a CC recipient only has been refused
C14_Witness ==
    \E p \in Procs :
        /\ pc[p] = "done"
        /\ ret[p] = "False"
        /\ msgs[p] = <<Msg("warning", "Cannot delete", ContactB)>>
        /\ InUse(ContactB)
        /\ AddressCount(ContactB) = 0
        /\ \E r \in contacts : r.name = ContactB
\* C15: the refusal of delete_contact triggers only for a name that some
\* stored record has as Address or as exactly one of its CC recipients: for
\* every other contact, if no backend call fails, delete_contact returns True
\* and the row is gone from the contacts table, even when the name is a
\* substring of another name stored in a CC field.
C15_RefusedIffInUse ==
    [][\A p \in Procs :
          ( /\ DeleteReturns(p)
            /\ ~InUse(contact_name[p])
            /\ ~DelExecNoData(p)
            /\ ~DeleteContactException(p) ) =>
               /\ ret'[p] = "True"
               /\ ~\E r \in contacts' : r.id = contact_id[p]]_vars

\* C16: every contact row that was chosen as the address or as a CC
\* recipient of a stored dispatch record still exists in the contacts table.
C16_ChosenContactsRemain ==
    \A id \in chosen : \E r \in contacts : r.id = id

\* C17: no two rows of the contacts table have the same name.
C17_NamesUnique ==
    \A r1, r2 \in contacts : r1.name = r2.name => r1 = r2
\* session p returns from insert_data in this step
InsertDataReturns(p) ==
    pc[p] \in {"rpc", "insert", "update"} /\ pc'[p] = "done"

\* C18: every step of every operation (insert_data, fetch_data, add_contact,
\* update_contact, delete_contact, login, logout) leaves the stored dispatch
\* records as they are, their No included; the records grow only by the
\* insert of insert_data, one record appended, and a call of insert_data
\* returns True exactly when it has appended its record.
C18_RecordsAppendOnly ==
    [][/\ Len(records') >= Len(records)
       /\ SubSeq(records', 1, Len(records)) = records
       /\ records' # records =>
             \E p \in Procs :
                 /\ pc[p] = "insert" /\ pc'[p] = "update"
                 /\ records' = Append(records, data_to_insert(p))
       /\ \A p \in Procs :
             (pc[p] = "insert" /\ pc'[p] = "update") =>
                Len(records') = Len(records) + 1
       /\ \A p \in Procs :
             InsertDataReturns(p) =>
                (ret'[p] = "True" <=> pc[p] = "update")]_vars

\* the contact of a stored record has been renamed and the record still
\* carries the name it was stored with
C18_Witness ==
    /\ \E i \in DOMAIN records : records[i].Address = ContactA
    /\ [id |-> IdA, name |-> ContactC] \in contacts

\* C19: every stored dispatch record has a section among ACCTS, ESTAB, DB,
\* CAMP, a date, a non-empty address and a non-empty subject; pressing
\* "Add Record" on a form that lacks one of them shows a warning, does not
\* enter insert_data, stores no record and leaves last_no unchanged.
C19_StoredRecordsComplete ==
    [][/\ \A i \in DOMAIN records' :
             /\ \E k \in DOMAIN sections : sections[k] = records'[i].Section
             /\ records'[i].Date # None
             /\ records'[i].Address # None /\ records'[i].Address # <<>>
             /\ records'[i].Subject # None /\ records'[i].Subject # <<>>
       /\ \A p \in Procs :
             (\E f \in IncompleteForms : FormRejected(p, f)) =>
                /\ \E i \in DOMAIN msgs'[p] : msgs'[p][i].kind = "warning"
                /\ pc'[p] = "done"
                /\ section'[p] = None
                /\ records' = records
                /\ last_no' = last_no]_vars

\* a record is stored and a later incomplete form has been turned away
C19_Witness ==
    \E p \in Procs :
        /\ records # <<>>
        /\ pc[p] = "done"
        /\ msgs[p] = <<Msg("warning", "Please fill in all required fields", None)>>

\* the display name the users table holds for a username
DisplayName(u) == (CHOOSE r \in UsersTable : r.username = u).name

\* C20: a login submission with a username that is a key of the fetched
\* users sets authentication_status True, username to that username and name
\* to that user's display name; with any other username it sets
\* authentication_status False and leaves username and name as they were,
\* None.
C20_LoginMapsUsername ==
    [][\A p \in Procs : \A u \in Usernames :
          (LoginOk(p, u) \/ LoginIncorrect(p, u)) =>
             IF supabase /\ \E r \in UsersTable : r.username = u
             THEN /\ authentication_status'[p] = "True"
                  /\ username'[p] = u
                  /\ name'[p] = DisplayName(u)
             ELSE /\ authentication_status'[p] = "False"
                  /\ username'[p] = username[p] /\ username'[p] = None
                  /\ name'[p] = name[p] /\ name'[p] = None]_vars

\* one session is logged in under its display name, another was turned away
C20_Witness ==
    \E p, q \in Procs :
        /\ authentication_status[p] = "True"
        /\ username[p] = <<"r", "a", "j">>
        /\ name[p] = <<"R", "a", "j", "a">>
        /\ authentication_status[q] = "False"
        /\ msgs[q] = <<Msg("error", "Incorrect username", None)>>
        /\ username[q] = None
\* C21: after a click on Delete for a listed contact, the next render shows
\* the "Confirm Deletion" prompt for that contact, so that "Yes, Delete"
\* can call delete_contact with that contact's id and name.
C21_DeleteShowsConfirmation ==
    [][\A p \in Procs : \A r \in contacts :
          ClickDelete(p, r) =>
             /\ edit_contact_id'[p] # NoId
             /\ confirm_delete'[p]
             /\ delete_contact_id'[p] = r.id
             /\ contact_to_delete_name'[p] = r.name]_vars

\* C22: in no reachable state of the Manage Contacts session state is
\* edit_contact_id set while confirm_delete is True.
C22_EditAndConfirmExclusive ==
    \A p \in Procs : ~(edit_contact_id[p] # NoId /\ confirm_delete[p])

\* a session that had one contact under edit has clicked Delete on another
C22_Witness ==
    \E p \in Procs :
        /\ confirm_delete[p]
        /\ delete_contact_id[p] = IdA
        /\ contact_to_delete_name[p] = ContactA
        /\ edit_contact_id[p] = NoId
        /\ edit_contact_name[p] = ContactB
\* C23: whenever no insert_data call is in progress, last_no is at least the
\* end number of every stored dispatch record.
C23_LastNoCoversRecords ==
    Quiet => \A i \in DOMAIN records : last_no >= EndOf(records[i].No)
\* C24: a call of insert_data returns True exactly when it has stored one
\* new dispatch record and False exactly when it has stored none, also when
\* the sequence update fails after the insert (the call then returns True).
C24_TrueIffOneRecord ==
    [][\A p \in Procs :
          (InsertDataReturns(p) \/ \E f \in Submissions : SubmitNoClient(p, f)) =>
             /\ ret'[p] \in {"True", "False"}
             /\ ret'[p] = "True" <=> inserted'[p] = 1
             /\ ret'[p] = "False" <=> inserted'[p] = 0]_vars

\* a call has returned True with its record stored although its sequence
\* update failed
C24_Witness ==
    \E p \in Procs :
        /\ pc[p] = "done"
        /\ ret[p] = "True"
        /\ inserted[p] = 1
        /\ msgs[p] # <<>>
        /\ msgs[p][1].kind = "warning"
        /\ last_no < EndOf(records[Len(records)].No)
\* a call of insert_data, add_contact, update_contact or delete_contact begins
Invoked(p) ==
    \/ \E f \in Submissions \cup IncompleteForms :
          Submit(p, f) \/ SubmitNoClient(p, f)
    \/ \E nm \in AddNames :
          AddContact(p, nm) \/ AddContactEmpty(p, nm) \/ AddContactNoClient(p, nm)
    \/ \E r \in contacts, nm \in EditNames \cup {<<" ">>} :
          \/ UpdateContact(p, r.id, nm)
          \/ UpdateContactEmpty(p, r.id, nm)
          \/ UpdateContactNoClient(p, r.id, nm)
    \/ \E r \in contacts :
          DeleteContact(p, r.id, r.name) \/ DeleteContactNoClient(p, r.id, r.name)

\* C25: insert_data, add_contact, update_contact and delete_contact are
\* invoked only by a session whose authentication_status is True; the status
\* becomes True only by a login whose username is a key of users; Logout
\* sets it to False, and while it is not True username and name are None.
C25_WritesBehindLogin ==
    [][\A p \in Procs :
          /\ Invoked(p) => authentication_status[p] = "True"
          /\ pc'[p] \notin {"idle", "done"} => authentication_status'[p] = "True"
          /\ (authentication_status[p] # "True" /\ authentication_status'[p] = "True")
                => /\ \E u \in Usernames : LoginOk(p, u)
                   /\ \E r \in users : r.username = username'[p]
          /\ Logout(p) => authentication_status'[p] = "False"
          /\ authentication_status'[p] # "True"
                => username'[p] = None /\ name'[p] = None]_vars

\* a session has stored a record while logged in, has logged out and has
\* then been turned away at the login form
C25_Witness ==
    \E p \in Procs :
        /\ pc[p] = "done"
        /\ ret[p] = "True"
        /\ inserted[p] = 1
        /\ authentication_status[p] = "False"
        /\ username[p] = None
        /\ name[p] = None
        /\ msgs[p] = <<Msg("error", "Incorrect username", None)>>
====
